---------------------------- MODULE Spec2Model ----------------------------
(***************************************************************************)
(* A model of the Google Cloud console assistant (unnikked/consoleassist). *)
(*                                                                         *)
(*   src/app/agent.py                 the planning agent: the tools        *)
(*       execute_python_code, run_gcloud_command, get_gcloud_help,         *)
(*       list_available_gcloud_commands, and the LangGraph workflow        *)
(*       agent -> route_next_step -> planner | executor | tools | END.     *)
(*   src/app/agent_console_updated.py the multi-tool agent: the gated      *)
(*       command runners for gcloud, gsutil, bq and kubectl, and the help  *)
(*       tools.                                                            *)
(*                                                                         *)
(* Text (command lines, snippets, model replies) is a sequence of          *)
(* one-character strings, so that str.strip, str.split, str.startswith and *)
(* substring search are computed character by character as Python does.    *)
(***************************************************************************)
EXTENDS Integers, Sequences, FiniteSets, TLC

VARIABLES
  state,     \* the conversation state: messages, plan_created, current_step, plan
  pc,        \* the workflow node that runs next ("idle" outside a workflow run)
  decision,  \* what the last evaluation of route_next_step returned
  lastOp,    \* the last component run and the model calls it made
  request,   \* the input of the step under way: a tool call, or the model's reply
  toolLog,   \* what the last tool dispatch did: gate decision, processes, result
  sandbox    \* sys.stdout of the process and the evaluations of snippets under way

vars == <<state, pc, decision, lastOp, request, toolLog, sandbox>>

(***************************************************************************)
(* Bounds of the model.                                                    *)
(***************************************************************************)
MaxAtoms == 4

MaxSnippetAtoms == 3

MaxTopicAtoms == 2

MaxMessages == 5

MaxWorkflowMessages == 9

MaxPlanSteps == 3

MaxPlans == 2

MaxToolRounds == 1

MaxTurns == 2

MaxEvals == 2

MaxHistory == 3

MaxLines == 3

(***************************************************************************)
(* Program constants.                                                      *)
(***************************************************************************)
ALLOWED_GCLOUD_COMMANDS ==
  <<
    <<"c","o","m","p","u","t","e">>,
    <<"s","t","o","r","a","g","e">>,
    <<"r","u","n">>,
    <<"f","u","n","c","t","i","o","n","s">>,
    <<"c","o","n","f","i","g">>,
    <<"p","r","o","j","e","c","t","s">>,
    <<"a","u","t","h">>,
    <<"i","a","m">>,
    <<"s","e","r","v","i","c","e","s">>,
    <<"c","o","n","t","a","i","n","e","r">>,
    <<"a","i">>,
    <<"m","l">>
  >>
ALLOWED_GSUTIL_COMMANDS ==
  <<
    <<"l","s">>,
    <<"c","p">>,
    <<"m","v">>,
    <<"r","m">>,
    <<"c","a","t">>,
    <<"s","t","a","t">>,
    <<"a","c","l">>,
    <<"c","o","r","s">>,
    <<"w","e","b">>,
    <<"i","a","m">>,
    <<"k","m","s">>,
    <<"l","a","b","e","l">>,
    <<"l","o","g","g","i","n","g">>,
    <<"n","o","t","i","f","i","c","a","t","i","o","n">>,
    <<"v","e","r","s","i","o","n","i","n","g">>
  >>
ALLOWED_BQ_COMMANDS ==
  <<
    <<"q","u","e","r","y">>,
    <<"l","s">>,
    <<"m","k">>,
    <<"r","m">>,
    <<"c","p">>,
    <<"e","x","t","r","a","c","t">>,
    <<"l","o","a","d">>,
    <<"u","p","d","a","t","e">>,
    <<"s","h","o","w">>,
    <<"h","e","a","d">>,
    <<"i","n","s","e","r","t">>,
    <<"w","a","i","t">>,
    <<"c","a","n","c","e","l">>
  >>
ALLOWED_KUBECTL_COMMANDS ==
  <<
    <<"g","e","t">>,
    <<"d","e","s","c","r","i","b","e">>,
    <<"l","o","g","s">>,
    <<"e","x","e","c">>,
    <<"a","p","p","l","y">>,
    <<"c","r","e","a","t","e">>,
    <<"d","e","l","e","t","e">>,
    <<"s","c","a","l","e">>,
    <<"r","o","l","l","o","u","t">>,
    <<"e","x","p","o","s","e">>,
    <<"s","e","t">>,
    <<"e","x","p","l","a","i","n">>,
    <<"c","o","n","f","i","g">>
  >>
DESTRUCTIVE_COMMANDS ==
  <<
    <<"d","e","l","e","t","e">>,
    <<"r","e","m","o","v","e">>,
    <<"r","e","s","e","t">>,
    <<"u","n","s","e","t">>,
    <<"c","l","e","a","r">>,
    <<"r","m">>,
    <<"d","r","o","p">>
  >>
dangerous_modules ==
  <<
    <<"o","s",".","s","y","s","t","e","m">>,
    <<"s","u","b","p","r","o","c","e","s","s">>,
    <<"e","v","a","l","(">>,
    <<"e","x","e","c","(">>,
    <<"o","p","e","n","(">>,
    <<"_","_","i","m","p","o","r","t","_","_">>,
    <<"i","m","p","o","r","t","l","i","b">>,
    <<"s","h","u","t","i","l">>,
    <<"s","o","c","k","e","t">>,
    <<"r","e","q","u","e","s","t","s">>,
    <<"u","r","l","l","i","b">>,
    <<"p","a","t","h","l","i","b">>
  >>
valid_tools ==
  <<
    <<"g","c","l","o","u","d">>,
    <<"g","s","u","t","i","l">>,
    <<"b","q">>,
    <<"k","u","b","e","c","t","l">>
  >>

\* agent.py keeps its own, shorter list (agent.py line 39); no code reads it.
AGENT_DESTRUCTIVE_COMMANDS ==
  <<
    <<"d","e","l","e","t","e">>,
    <<"r","e","m","o","v","e">>,
    <<"r","e","s","e","t">>,
    <<"u","n","s","e","t">>,
    <<"c","l","e","a","r">>
  >>

GCLOUD == <<"g","c","l","o","u","d">>

GSUTIL == <<"g","s","u","t","i","l">>

BQ == <<"b","q">>

KUBECTL == <<"k","u","b","e","c","t","l">>

HELP_FLAG == <<" ","-","-","h","e","l","p">>

HELP_LIMIT == 2000

TRUNCATED_NOTE ==
  <<".",".",".","\n","(","O","u","t","p","u","t"," ","t","r","u","n","c","a","t","e","d"," ","f","o","r"," ","b","r","e","v","i","t","y",")">>

(***************************************************************************)
(* Python's str and list operations, on character sequences.               *)
(***************************************************************************)
Whitespace == {" ", "\t", "\n"}

RECURSIVE lstrip(_)
lstrip(s) ==
  IF s # <<>> /\ Head(s) \in Whitespace THEN lstrip(Tail(s)) ELSE s

RECURSIVE rstrip(_)
rstrip(s) ==
  IF s # <<>> /\ s[Len(s)] \in Whitespace
  THEN rstrip(SubSeq(s, 1, Len(s) - 1))
  ELSE s

strip(s) == rstrip(lstrip(s))

RECURSIVE split_acc(_, _, _)
split_acc(s, cur, acc) ==
  IF s = <<>>
  THEN (IF cur = <<>> THEN acc ELSE Append(acc, cur))
  ELSE IF Head(s) \in Whitespace
       THEN split_acc(Tail(s), <<>>, IF cur = <<>> THEN acc ELSE Append(acc, cur))
       ELSE split_acc(Tail(s), Append(cur, Head(s)), acc)

\* s.split(): the maximal runs of non-whitespace characters, in order
split(s) == split_acc(s, <<>>, <<>>)

startswith(s, p) == Len(s) >= Len(p) /\ SubSeq(s, 1, Len(p)) = p

\* sub in s, for strings: sub occurs in s as a contiguous run
contains(s, sub) ==
  \E i \in 1..(Len(s) - Len(sub) + 1) : SubSeq(s, i, i + Len(sub) - 1) = sub

\* x in xs, for lists: some element equals x
in_list(x, xs) == \E i \in DOMAIN xs : xs[i] = x

RECURSIVE Flatten(_)
Flatten(parts) ==
  IF parts = <<>> THEN <<>> ELSE Head(parts) \o Flatten(Tail(parts))

\* the texts built from at most n pieces out of atoms
Texts(atoms, n) ==
  { Flatten(p) : p \in UNION { [1..k -> atoms] : k \in 0..n } }

(***************************************************************************)
(* The external process boundary: what subprocess.run(command, shell=True, *)
(* check=True, text=True, capture_output=True) can do.  No timeout is      *)
(* passed, so a process that never exits blocks the call.                  *)
(***************************************************************************)
OUT == <<"o","u","t">>

ERR == <<"e","r","r">>

LongOut == [i \in 1..(HELP_LIMIT + 1) |-> "x"]

Outcome(kind, stdout, stderr, printed) ==
  [kind |-> kind, stdout |-> stdout, stderr |-> stderr, printed |-> printed]

ProcOutcomes ==
  { Outcome("exit0", OUT, <<>>, <<>>),
    Outcome("exit0", <<>>, <<>>, <<>>),
    Outcome("nonzero", <<>>, ERR, <<>>),
    Outcome("nonzero", <<>>, <<>>, <<>>),
    Outcome("oserror", <<>>, <<>>, <<>>),
    Outcome("hang", <<>>, <<>>, <<>>) }

HelpOutcomes == ProcOutcomes \cup { Outcome("exit0", LongOut, <<>>, <<>>) }

\* what exec(code, sandbox_globals) can do with an accepted snippet
ExecOutcomes ==
  { Outcome("ok", <<>>, <<>>, OUT),
    Outcome("ok", <<>>, <<>>, <<>>),
    Outcome("Exception", <<>>, <<>>, <<>>),
    Outcome("SystemExit", <<>>, <<>>, <<>>) }

(***************************************************************************)
(* A tool call's effects.  result is the returned string: the literal text *)
(* of the return statement (prefix) followed by what it interpolates       *)
(* (arg); tag names the return statement by the ToolResult it stands for.  *)
(*   gate       the decision of the command gate, "none" when no gate ran  *)
(*   spawned    the command lines handed to subprocess.run                 *)
(*   evaluated  exec() was called on the snippet                           *)
(*   redirected sys.stdout was replaced during the call                    *)
(*   outcome    "returned", "raised" (an exception left the tool) or       *)
(*              "blocked" (the call never returns)                         *)
(***************************************************************************)
NoResult == [tag |-> "None", prefix |-> "", arg |-> <<>>]

Returned(gate, spawned, tag, prefix, arg) ==
  [gate |-> gate, spawned |-> spawned, evaluated |-> FALSE, redirected |-> FALSE,
   outcome |-> "returned", raised |-> "",
   result |-> [tag |-> tag, prefix |-> prefix, arg |-> arg]]

Raised(gate, spawned, exc) ==
  [gate |-> gate, spawned |-> spawned, evaluated |-> FALSE, redirected |-> FALSE,
   outcome |-> "raised", raised |-> exc, result |-> NoResult]

Blocked(gate, spawned) ==
  [gate |-> gate, spawned |-> spawned, evaluated |-> FALSE, redirected |-> FALSE,
   outcome |-> "blocked", raised |-> "", result |-> NoResult]

\* the try/except around subprocess.run in the command runners
run_subprocess(gate, command, o) ==
  CASE o.kind = "exit0" ->
         Returned(gate, <<command>>, "Success",
                  IF o.stdout # <<>> THEN "" ELSE "Command executed successfully (no output)",
                  o.stdout)
    [] o.kind = "nonzero" ->
         IF o.stderr # <<>>
         THEN Returned(gate, <<command>>, "ExecutionError",
                       "Error executing command: ", o.stderr)
         ELSE Returned(gate, <<command>>, "ExecutionError",
                       "Error executing command: Command returned non-zero exit status: ",
                       command)
    [] o.kind = "oserror" ->
         Returned(gate, <<command>>, "ExecutionError", "Unexpected error: ", ERR)
    [] OTHER -> Blocked(gate, <<command>>)

(***************************************************************************)
(* The command gate of agent_console_updated.py.                           *)
(***************************************************************************)
\* a faulty variant of prefix_ok: command.strip().startswith("<prog>"), the
\* space after the program name forgotten
prefix_ok_no_space(prog, command) == startswith(strip(command), prog)

\* command.strip().startswith("<prog> ")
prefix_ok(prog, command) == startswith(strip(command), prog \o <<" ">>)

\* a faulty variant of category_allowed: the category need only start with an
\* allowed one (the startswith test of agent.py's disabled check)
category_allowed_by_prefix(command_category, allowed) ==
  \E i \in DOMAIN allowed : startswith(command_category, allowed[i])

\* command_category in ALLOWED_<PROG>_COMMANDS
category_allowed(command_category, allowed) == in_list(command_category, allowed)

\* a faulty variant of destructive_hits: the shorter keyword list of agent.py,
\* which has no "rm" and no "drop"
destructive_hits_short_list(components) ==
  { i \in DOMAIN AGENT_DESTRUCTIVE_COMMANDS :
      in_list(AGENT_DESTRUCTIVE_COMMANDS[i], components) }

\* a faulty variant of destructive_hits: a keyword counts when it occurs
\* inside a component
destructive_hits_by_substring(components) ==
  { i \in DOMAIN DESTRUCTIVE_COMMANDS :
      \E k \in DOMAIN components : contains(components[k], DESTRUCTIVE_COMMANDS[i]) }

\* the destructive keywords that are elements of components
destructive_hits(components) ==
  { i \in DOMAIN DESTRUCTIVE_COMMANDS : in_list(DESTRUCTIVE_COMMANDS[i], components) }

\* for destructive_cmd in DESTRUCTIVE_COMMANDS: the first one found
first_destructive(components) ==
  LET hits == destructive_hits(components)
  IN  DESTRUCTIVE_COMMANDS[CHOOSE i \in hits : \A j \in hits : i <= j]

gated_command(prog, allowed, command, o) ==
  IF ~prefix_ok(prog, command)
  THEN Returned("MalformedCommand", <<>>, "MalformedCommand",
                "Error: Only <prog> commands are supported. Command must start with ", prog)
  ELSE
    LET components == split(strip(command)) IN
    IF Len(components) < 2
    THEN Returned("MalformedCommand", <<>>, "MalformedCommand",
                  "Error: Invalid <prog> command format.", <<>>)
    ELSE
      LET command_category == components[2] IN
      IF ~category_allowed(command_category, allowed)
      THEN Returned("CategoryNotAllowed", <<>>, "CategoryNotAllowed",
                    "Error: The <prog> command is not allowed for security reasons: ",
                    command_category)
      ELSE IF destructive_hits(components) # {}
      THEN Returned("ConfirmationRequired", <<>>, "ConfirmationRequired",
                    "Warning: The command contains a keyword which could be destructive. Please confirm if you want to proceed with this operation: ",
                    first_destructive(components))
      ELSE run_subprocess("Admitted", command, o)

console_run_gcloud_command(command, o) ==
  gated_command(GCLOUD, ALLOWED_GCLOUD_COMMANDS, command, o)

run_gsutil_command(command, o) ==
  gated_command(GSUTIL, ALLOWED_GSUTIL_COMMANDS, command, o)

run_bq_command(command, o) ==
  gated_command(BQ, ALLOWED_BQ_COMMANDS, command, o)

run_kubectl_command(command, o) ==
  gated_command(KUBECTL, ALLOWED_KUBECTL_COMMANDS, command, o)

\* the try/except around subprocess.run in the help tools: no sentinel for an
\* empty output, and only CalledProcessError is caught
help_subprocess(command, o) ==
  CASE o.kind = "exit0" ->
         Returned("none", <<command>>, "Success", "",
                  IF Len(o.stdout) > HELP_LIMIT
                  THEN SubSeq(o.stdout, 1, HELP_LIMIT) \o TRUNCATED_NOTE
                  ELSE o.stdout)
    [] o.kind = "nonzero" ->
         IF o.stderr # <<>>
         THEN Returned("none", <<command>>, "ExecutionError", "Error getting help: ", o.stderr)
         ELSE Returned("none", <<command>>, "ExecutionError",
                       "Error getting help: Command returned non-zero exit status: ", command)
    [] o.kind = "oserror" -> Raised("none", <<command>>, "OSError")
    [] OTHER -> Blocked("none", <<command>>)

get_tool_help(tool, topic, o) ==
  IF ~in_list(tool, valid_tools)
  THEN Returned("none", <<>>, "InvalidTool", "Error: Invalid tool. Valid tools are: gcloud, gsutil, bq, kubectl: ", tool)
  ELSE help_subprocess(tool \o <<" ">> \o topic \o HELP_FLAG, o)

\* the listing is built from the allowed lists alone; no process is run
list_available_commands(tool) ==
  IF tool # <<>> /\ ~in_list(tool, valid_tools)
  THEN Returned("none", <<>>, "InvalidTool", "Error: Invalid tool. Valid tools are: gcloud, gsutil, bq, kubectl: ", tool)
  ELSE Returned("none", <<>>, "Success", "Available commands ... To get help on any tool or command, use the get_tool_help tool.", tool)

(***************************************************************************)
(* The tools of agent.py.                                                  *)
(***************************************************************************)
\* The allow-list and destructive-keyword checks are commented out; the
\* prefix is added when missing and the command is run.
agent_run_gcloud_command(command, o) ==
  LET cmd == IF ~startswith(command, GCLOUD \o <<" ">>)
             THEN GCLOUD \o <<" ">> \o command
             ELSE command
  IN  run_subprocess("none", cmd, o)

get_gcloud_help(topic, o) ==
  help_subprocess(GCLOUD \o <<" ">> \o topic \o HELP_FLAG, o)

list_available_gcloud_commands ==
  Returned("none", <<>>, "Success", "Available gcloud command categories: ... To get help on any category, use the get_gcloud_help tool.", <<>>)

\* a faulty variant of marker_hits: a marker counts only as a whole
\* whitespace-delimited token of the code
marker_hits_whole_tokens(code) ==
  { i \in DOMAIN dangerous_modules : in_list(dangerous_modules[i], split(code)) }

\* the markers of dangerous_modules that occur in code, by position in the list
marker_hits(code) ==
  { i \in DOMAIN dangerous_modules : contains(code, dangerous_modules[i]) }

\* for module in dangerous_modules: if module in code: the first one found
first_marker(code) ==
  LET hits == marker_hits(code)
  IN  dangerous_modules[CHOOSE i \in hits : \A j \in hits : i <= j]

execute_python_code(code, x) ==
  IF marker_hits(code) # {}
  THEN Returned("none", <<>>, "SafetyRejected",
                "SAFETY CHECK: The code contains potentially unsafe operations. For security reasons, code with system access, file operations, or network capabilities is not permitted: ",
                first_marker(code))
  ELSE
    \* sys.stdout = captured_output; try: exec(code, sandbox_globals) ...
    \* finally: sys.stdout = old_stdout
    CASE x.kind = "ok" ->
           [ Returned("none", <<>>, "Success",
                      IF x.printed # <<>> THEN "" ELSE "Code executed successfully (no output)",
                      x.printed)
             EXCEPT !.evaluated = TRUE, !.redirected = TRUE ]
      [] x.kind = "Exception" ->
           [ Returned("none", <<>>, "ExecutionError", "Error executing Python code: ", ERR)
             EXCEPT !.evaluated = TRUE, !.redirected = TRUE ]
      [] OTHER ->
           \* SystemExit and KeyboardInterrupt are not Exceptions: not caught
           [ Raised("none", <<>>, x.kind)
             EXCEPT !.evaluated = TRUE, !.redirected = TRUE ]

(***************************************************************************)
(* Tool calls as the model requests them, and their dispatch (ToolNode     *)
(* looks the tool up by name and calls it with the arguments).             *)
(***************************************************************************)
ToolCall(module, name, tool, text) ==
  [module |-> module, name |-> name, tool |-> tool, text |-> text]

NoOutcome == Outcome("none", <<>>, <<>>, <<>>)

\* what the world outside the tool can answer to this call
Outcomes(req) ==
  CASE req.name \in {"run_gcloud_command", "run_gsutil_command",
                     "run_bq_command", "run_kubectl_command"} -> ProcOutcomes
    [] req.name \in {"get_gcloud_help", "get_tool_help"} -> HelpOutcomes
    [] req.name = "execute_python_code" -> ExecOutcomes
    [] OTHER -> { NoOutcome }

invoke_tool(req, o) ==
  CASE req.module = "console" /\ req.name = "run_gcloud_command" ->
         console_run_gcloud_command(req.text, o)
    [] req.module = "console" /\ req.name = "run_gsutil_command" ->
         run_gsutil_command(req.text, o)
    [] req.module = "console" /\ req.name = "run_bq_command" ->
         run_bq_command(req.text, o)
    [] req.module = "console" /\ req.name = "run_kubectl_command" ->
         run_kubectl_command(req.text, o)
    [] req.module = "console" /\ req.name = "get_tool_help" ->
         get_tool_help(req.tool, req.text, o)
    [] req.module = "console" /\ req.name = "list_available_commands" ->
         list_available_commands(req.tool)
    [] req.module = "agent" /\ req.name = "run_gcloud_command" ->
         agent_run_gcloud_command(req.text, o)
    [] req.module = "agent" /\ req.name = "get_gcloud_help" ->
         get_gcloud_help(req.text, o)
    [] req.module = "agent" /\ req.name = "list_available_gcloud_commands" ->
         list_available_gcloud_commands
    [] req.module = "agent" /\ req.name = "execute_python_code" ->
         execute_python_code(req.text, o)

\* one entry of toolLog: the call and what it did
LogEntry(req, o) == [request |-> req, effect |-> invoke_tool(req, o)]

(***************************************************************************)
(* Messages.  content is the literal text of the message (prefix) followed *)
(* by what is interpolated into it (body).  Only an AIMessage has the      *)
(* attribute tool_calls; the field is empty in the other records.          *)
(***************************************************************************)
HumanMessage(text) ==
  [type |-> "human", kind |-> "user", prefix |-> "", body |-> text, tool_calls |-> <<>>]

AIMessage(kind, prefix, body, tool_calls) ==
  [type |-> "ai", kind |-> kind, prefix |-> prefix, body |-> body, tool_calls |-> tool_calls]

ToolMessage(kind, prefix, body) ==
  [type |-> "tool", kind |-> kind, prefix |-> prefix, body |-> body, tool_calls |-> <<>>]

Digit == {"0", "1", "2", "3", "4", "5", "6", "7", "8", "9"}

DigitChar(d) ==
  CASE d = 0 -> "0" [] d = 1 -> "1" [] d = 2 -> "2" [] d = 3 -> "3" [] d = 4 -> "4"
    [] d = 5 -> "5" [] d = 6 -> "6" [] d = 7 -> "7" [] d = 8 -> "8" [] d = 9 -> "9"

RECURSIVE str_int(_)
\* str(n) for n >= 0
str_int(n) ==
  IF n < 10 THEN <<DigitChar(n)>> ELSE Append(str_int(n \div 10), DigitChar(n % 10))

(***************************************************************************)
(* route_next_step: the conditional edge of the agent node (agent.py).     *)
(***************************************************************************)
\* a faulty variant of route_next_step: the executor is selected while
\* current_step < len(plan), the last step included
route_next_step_to_last_step(st) ==
  LET last_message == st.messages[Len(st.messages)] IN
  IF ~st.plan_created /\ last_message.type = "human" THEN "planner"
  ELSE IF st.plan_created /\ st.current_step < Len(st.plan) THEN "executor"
  ELSE IF last_message.type # "ai" THEN "AttributeError"
  ELSE IF last_message.tool_calls # <<>> THEN "tools"
  ELSE "END"

route_next_step(st) ==
  LET last_message == st.messages[Len(st.messages)] IN
  IF ~st.plan_created /\ last_message.type = "human" THEN "planner"
  ELSE IF st.plan_created /\ st.current_step < Len(st.plan) - 1 THEN "executor"
  \* last_message.tool_calls: only an AIMessage has the attribute
  ELSE IF last_message.type # "ai" THEN "AttributeError"
  ELSE IF last_message.tool_calls # <<>> THEN "tools"
  ELSE "END"

(***************************************************************************)
(* create_plan: the parsing of the model's reply.                          *)
(***************************************************************************)
\* the first index >= p of text that holds no digit (Len(text) + 1 if none)
RECURSIVE digits_end(_, _)
digits_end(text, p) ==
  IF p <= Len(text) /\ text[p] \in Digit THEN digits_end(text, p + 1) ELSE p

\* \d+\. matches at p: the index after the period, 0 when there is no match
number_dot(text, p) ==
  IF p <= Len(text) /\ text[p] \in Digit
  THEN LET e == digits_end(text, p)
       IN  IF e <= Len(text) /\ text[e] = "." THEN e + 1 ELSE 0
  ELSE 0

\* \s* from p: the first index >= p that holds no whitespace
RECURSIVE spaces_end(_, _)
spaces_end(text, p) ==
  IF p <= Len(text) /\ text[p] \in Whitespace THEN spaces_end(text, p + 1) ELSE p

\* (?=\n\d+\.|\Z) holds at q
item_stop(text, q) ==
  \/ q = Len(text) + 1
  \/ q <= Len(text) /\ text[q] = "\n" /\ number_dot(text, q + 1) # 0

\* (.*?) from j: the first q >= j where the lookahead holds
RECURSIVE lazy_end(_, _)
lazy_end(text, j) == IF item_stop(text, j) THEN j ELSE lazy_end(text, j + 1)

\* re.findall(r'\d+\.\s*(.*?)(?=\n\d+\.|\Z)', text, re.DOTALL) scanning from p
RECURSIVE findall_from(_, _, _)
findall_from(text, p, acc) ==
  IF p > Len(text) THEN acc
  ELSE LET after == number_dot(text, p) IN
       IF after = 0 THEN findall_from(text, p + 1, acc)
       ELSE LET j == spaces_end(text, after)
                q == lazy_end(text, j)
            IN  findall_from(text, q, Append(acc, SubSeq(text, j, q - 1)))

findall_steps(text) == findall_from(text, 1, <<>>)

\* text.split('\n')
RECURSIVE split_lines_acc(_, _, _)
split_lines_acc(s, cur, acc) ==
  IF s = <<>> THEN Append(acc, cur)
  ELSE IF Head(s) = "\n" THEN split_lines_acc(Tail(s), <<>>, Append(acc, cur))
  ELSE split_lines_acc(Tail(s), Append(cur, Head(s)), acc)

split_lines(s) == split_lines_acc(s, <<>>, <<>>)

\* [f(x) for x in xs if x.strip()] with f = strip
RECURSIVE strip_nonblank(_)
strip_nonblank(xs) ==
  IF xs = <<>> THEN <<>>
  ELSE IF strip(Head(xs)) # <<>>
       THEN <<strip(Head(xs))>> \o strip_nonblank(Tail(xs))
       ELSE strip_nonblank(Tail(xs))

parse_plan(plan_text) ==
  LET found == findall_steps(plan_text)
      steps1 == IF found = <<>> THEN strip_nonblank(split_lines(plan_text)) ELSE found
      \* steps = [step.strip() for step in steps]; steps = [step for step in steps if step]
      steps2 == strip_nonblank(steps1)
  IN  IF steps2 = <<>> THEN <<strip(plan_text)>> ELSE steps2

\* "{i}. {step}\n" for i, step in enumerate(steps, 1)
RECURSIVE summary_lines(_, _)
summary_lines(steps, i) ==
  IF i > Len(steps) THEN <<>>
  ELSE str_int(i) \o <<".", " ">> \o steps[i] \o <<"\n">> \o summary_lines(steps, i + 1)

(***************************************************************************)
(* The workflow nodes of agent.py, as functions of the state and of what   *)
(* the language model answers.                                             *)
(***************************************************************************)
has_human(messages) == \E i \in DOMAIN messages : messages[i].type = "human"

\* a faulty variant of latest_user_message: the scan runs forward and finds
\* the earliest HumanMessage
latest_user_message_scans_forward(messages) ==
  messages[CHOOSE i \in DOMAIN messages :
             /\ messages[i].type = "human"
             /\ \A j \in DOMAIN messages : messages[j].type = "human" => i <= j]

\* for msg in reversed(state["messages"]): the first HumanMessage found
latest_user_message(messages) ==
  messages[CHOOSE i \in DOMAIN messages :
             /\ messages[i].type = "human"
             /\ \A j \in DOMAIN messages : messages[j].type = "human" => j <= i]

plan_summary(steps) ==
  AIMessage("plan_summary",
            "I'll help you with this request. Here's my plan:\n\n{steps}\nI'll start working on this step by step.",
            summary_lines(steps, 1), <<>>)

\* a faulty variant of create_plan: the cursor of the state is kept
create_plan_keeps_current_step(st, plan_text) ==
  IF ~has_human(st.messages)
  THEN [st EXCEPT !.plan_created = TRUE, !.plan = <<>>, !.current_step = -1]
  ELSE
    LET steps == parse_plan(plan_text)
        new_messages == IF steps # <<>>
                        THEN st.messages \o <<plan_summary(steps)>>
                        ELSE st.messages
    IN  [messages |-> new_messages,
         plan |-> steps,
         current_step |-> st.current_step,
         plan_created |-> TRUE]

create_plan(st, plan_text) ==
  IF ~has_human(st.messages)
  THEN [st EXCEPT !.plan_created = TRUE, !.plan = <<>>, !.current_step = -1]
  ELSE
    LET steps == parse_plan(plan_text)
        new_messages == IF steps # <<>>
                        THEN st.messages \o <<plan_summary(steps)>>
                        ELSE st.messages
    IN  [messages |-> new_messages,
         plan |-> steps,
         current_step |-> IF steps # <<>> THEN 0 ELSE -1,
         plan_created |-> TRUE]

\* the model calls create_plan makes: one, with the latest user message alone
create_plan_calls(st) ==
  IF ~has_human(st.messages) THEN <<>>
  ELSE << [prompt |-> "planner",
           input |-> <<HumanMessage(latest_user_message(st.messages).body)>>] >>

step_in_range(st) == ~(st.current_step < 0 \/ st.current_step >= Len(st.plan))

step_progress(st) ==
  AIMessage("progress", "Step {step_number}/{total_steps}: {step_description}",
            str_int(st.current_step + 1) \o <<"/">> \o str_int(Len(st.plan))
              \o <<":", " ">> \o st.plan[st.current_step + 1],
            <<>>)

completion_msg ==
  AIMessage("completion", "All steps have been completed successfully!", <<>>, <<>>)

\* a faulty variant of execute_step: with no step pending the completion is
\* announced again
execute_step_announces_when_idle(st, response) ==
  IF ~step_in_range(st) THEN [st EXCEPT !.messages = Append(@, completion_msg)]
  ELSE
    LET next_step == st.current_step + 1
        new_messages == st.messages \o <<step_progress(st)>> \o <<response>>
    IN  [st EXCEPT !.messages = IF next_step >= Len(st.plan)
                                THEN new_messages \o <<completion_msg>>
                                ELSE new_messages,
                   !.current_step = next_step]

\* a faulty variant of execute_step: the completion is announced one step early
execute_step_announces_early(st, response) ==
  IF ~step_in_range(st) THEN st
  ELSE
    LET next_step == st.current_step + 1
        new_messages == st.messages \o <<step_progress(st)>> \o <<response>>
    IN  [st EXCEPT !.messages = IF next_step >= Len(st.plan) - 1
                                THEN new_messages \o <<completion_msg>>
                                ELSE new_messages,
                   !.current_step = next_step]

\* a faulty variant of execute_step: the cursor advances even when no step
\* is pending
execute_step_always_advances(st, response) ==
  IF ~step_in_range(st) THEN [st EXCEPT !.current_step = @ + 1]
  ELSE
    LET next_step == st.current_step + 1
        new_messages == st.messages \o <<step_progress(st)>> \o <<response>>
    IN  [st EXCEPT !.messages = IF next_step >= Len(st.plan)
                                THEN new_messages \o <<completion_msg>>
                                ELSE new_messages,
                   !.current_step = next_step]

\* a faulty variant of execute_step: the cursor stays on the step it ran
execute_step_never_advances(st, response) ==
  IF ~step_in_range(st) THEN st
  ELSE
    LET next_step == st.current_step + 1
        new_messages == st.messages \o <<step_progress(st)>> \o <<response>>
    IN  [st EXCEPT !.messages = IF next_step >= Len(st.plan)
                                THEN new_messages \o <<completion_msg>>
                                ELSE new_messages]

execute_step(st, response) ==
  IF ~step_in_range(st) THEN st
  ELSE
    LET next_step == st.current_step + 1
        new_messages == st.messages \o <<step_progress(st)>> \o <<response>>
    IN  [st EXCEPT !.messages = IF next_step >= Len(st.plan)
                                THEN new_messages \o <<completion_msg>>
                                ELSE new_messages,
                   !.current_step = next_step]

\* a faulty variant of execute_step_calls: the model is shown the history too
execute_step_calls_with_history(st) ==
  IF ~step_in_range(st) THEN <<>>
  ELSE << [prompt |-> "executor",
           input |-> st.messages \o
                     <<HumanMessage(<<"P","l","e","a","s","e"," ","e","x","e","c","u","t","e"," ","t","h","i","s"," ","s","t","e","p",":"," ">>
                                    \o st.plan[st.current_step + 1])>>] >>

\* the model calls execute_step makes: one, with the step's description alone
execute_step_calls(st) ==
  IF ~step_in_range(st) THEN <<>>
  ELSE << [prompt |-> "executor",
           input |-> <<HumanMessage(<<"P","l","e","a","s","e"," ","e","x","e","c","u","t","e"," ","t","h","i","s"," ","s","t","e","p",":"," ">>
                                    \o st.plan[st.current_step + 1])>>] >>

\* a faulty variant of call_model: the response replaces the history
call_model_replaces_history(st, response) == [st EXCEPT !.messages = <<response>>]

\* return {"messages": response}: the state's reducer appends the response
call_model(st, response) == [st EXCEPT !.messages = Append(@, response)]

call_model_calls(st) == << [prompt |-> "agent", input |-> st.messages] >>

\* ToolNode: one ToolMessage per tool call of the last message, in order.  An
\* Exception a tool raises becomes an error message for the model.
tool_message(entry) ==
  IF entry.effect.outcome = "returned"
  THEN ToolMessage(entry.effect.result.tag, entry.effect.result.prefix, entry.effect.result.arg)
  ELSE ToolMessage("ToolException", "Error: {exception} Please fix your mistakes.", <<>>)

\* the node finishes unless a tool call blocks or lets a BaseException through
tools_status(log) ==
  IF \E i \in DOMAIN log : log[i].effect.outcome = "blocked" THEN "blocked"
  ELSE IF \E i \in DOMAIN log : log[i].effect.raised = "SystemExit" THEN "aborted"
  ELSE "done"

\* a faulty variant of tool_node: the dispatch moves the cursor back one step
tool_node_rewinds(st, log) ==
  IF tools_status(log) # "done" THEN st
  ELSE [st EXCEPT !.messages = @ \o [i \in DOMAIN log |-> tool_message(log[i])],
                  !.current_step = IF @ > 0 THEN @ - 1 ELSE @]

tool_node(st, log) ==
  IF tools_status(log) # "done" THEN st
  ELSE [st EXCEPT !.messages = @ \o [i \in DOMAIN log |-> tool_message(log[i])]]

(***************************************************************************)
(* The inputs the model is checked on.                                     *)
(***************************************************************************)
\* an allowed category of each program that is no destructive keyword,
\* followed by a space
plain_category(prog) ==
  CASE prog = GCLOUD -> <<"c","o","m","p","u","t","e"," ">>
    [] prog = GSUTIL -> <<"l","s"," ">>
    [] prog = BQ -> <<"l","s"," ">>
    [] prog = KUBECTL -> <<"g","e","t"," ">>

\* a destructive keyword: for gsutil, bq and kubectl one that is also an
\* allowed category
destructive_word(prog) ==
  CASE prog = GCLOUD -> <<"d","e","l","e","t","e">>
    [] prog = GSUTIL -> <<"r","m">>
    [] prog = BQ -> <<"r","m">>
    [] prog = KUBECTL -> <<"d","e","l","e","t","e">>

\* the pieces command lines are built from; "x" glued to a word gives a
\* token that contains the word without being it
CmdAtoms(prog) ==
  { prog \o <<" ">>, prog, <<" ">>, plain_category(prog), destructive_word(prog), <<"x">> }

Commands(prog) == Texts(CmdAtoms(prog), MaxAtoms)

Topics == Texts(CmdAtoms(GCLOUD), MaxTopicAtoms)

SnippetAtoms ==
  { <<"i","m","p","o","r","t"," ","o","s",";"," ">>,
    <<"o","s",".","s","y","s">>,
    <<"t","e","m","(","'","l","s","'",")">>,
    <<"p","r","i","n","t","(","1",")">>,
    <<"e","v","a","l","(">> }

Snippets == Texts(SnippetAtoms, MaxSnippetAtoms)

\* commands whose tokens hold "create" and "clear" without being them
CreatedCommand ==
  <<"g","c","l","o","u","d"," ","c","o","m","p","u","t","e"," ","c","r","e","a","t","e","d">>

FormatClearCommand ==
  <<"g","s","u","t","i","l"," ","l","s"," ","-","-","f","o","r","m","a","t","=","c","l","e","a","r">>

\* the requests of the tool calls checked: every tool of both agents
IsToolRequest(r) ==
  \/ r \in { ToolCall("console", "run_gcloud_command", <<>>, c) : c \in Commands(GCLOUD) }
  \/ r \in { ToolCall("console", "run_gsutil_command", <<>>, c) : c \in Commands(GSUTIL) }
  \/ r \in { ToolCall("console", "run_bq_command", <<>>, c) : c \in Commands(BQ) }
  \/ r \in { ToolCall("console", "run_kubectl_command", <<>>, c) : c \in Commands(KUBECTL) }
  \/ r = ToolCall("console", "run_gcloud_command", <<>>, CreatedCommand)
  \/ r = ToolCall("console", "run_gsutil_command", <<>>, FormatClearCommand)
  \/ r \in { ToolCall("agent", "run_gcloud_command", <<>>, c) : c \in Commands(GCLOUD) }
  \/ r \in { ToolCall("agent", "get_gcloud_help", <<>>, t) : t \in Topics }
  \/ r \in { ToolCall("console", "get_tool_help", tool, t) :
               tool \in {GCLOUD, KUBECTL, <<"x">>}, t \in Topics }
  \/ r \in { ToolCall("console", "list_available_commands", tool, <<>>) :
               tool \in {<<>>, GCLOUD, <<"x">>} }
  \/ r = ToolCall("agent", "list_available_gcloud_commands", <<>>, <<>>)
  \/ r \in { ToolCall("agent", "execute_python_code", <<>>, c) : c \in Snippets }

NoRequest == ToolCall("", "", <<>>, <<>>)

\* sys.stdout is the stream of the console and no snippet is being evaluated
Console == [stream |-> "console", of |-> 0]

NoSandbox == [sys_stdout |-> Console, console |-> <<>>, evals |-> <<>>]

Queries == { <<"l","i","s","t"," ","m","y"," ","b","u","c","k","e","t","s">> }

StepName(i) == CASE i = 1 -> "A" [] i = 2 -> "B" [] i = 3 -> "C" [] OTHER -> "D"

RECURSIVE NumberedReply(_, _)
\* "1. A\n2. B\n..." with n items, from item i on
NumberedReply(i, n) ==
  IF i > n THEN <<>>
  ELSE str_int(i) \o <<".", " ", StepName(i)>>
       \o (IF i < n THEN <<"\n">> ELSE <<>>) \o NumberedReply(i + 1, n)

\* what the model answers the planner: numbered lists, a single line, nothing
PlanReplies ==
  { NumberedReply(1, n) : n \in 1..MaxPlanSteps }
  \cup { <<"R","u","n"," ","g","s","u","t","i","l"," ","l","s">>, <<>> }

\* the tool calls the model requests in the conversation
ModelCalls ==
  << ToolCall("agent", "run_gcloud_command", <<>>,
              <<"c","o","m","p","u","t","e"," ","i","n","s","t","a","n","c","e","s"," ","d","e","l","e","t","e"," ","v","m">>),
     ToolCall("agent", "execute_python_code", <<>>, <<"p","r","i","n","t","(","1",")">>),
     ToolCall("agent", "list_available_gcloud_commands", <<>>, <<>>) >>

\* what the model answers otherwise: text, with or without tool calls
Responses ==
  { AIMessage("response", "", <<"o","k">>, calls) :
      calls \in { <<>>, <<ModelCalls[1]>>, <<ModelCalls[2], ModelCalls[3]>> } }

InitialState(q) ==
  [messages |-> <<HumanMessage(q)>>, plan_created |-> FALSE,
   current_step |-> -1, plan |-> <<>>]

(***************************************************************************)
(* The runs of a node: each way the node can end, given what the model or  *)
(* the tools answer.  decision, lastOp and toolLog describe the step just  *)
(* taken: the router's decision, the model calls and the tool dispatch of  *)
(* that step (none and empty for a step that has no such part).            *)
(***************************************************************************)
NodeRun(node, st, calls, log, status) ==
  [state |-> st, lastOp |-> [node |-> node, llm |-> calls], toolLog |-> log,
   status |-> status]

\* the outcomes of the tool calls of one message, one per call
CallOutcomes(calls) ==
  { os \in [DOMAIN calls -> HelpOutcomes \cup ExecOutcomes \cup {NoOutcome}] :
      \A i \in DOMAIN calls : os[i] \in Outcomes(calls[i]) }

NodeRuns(node, st) ==
  CASE node = "planner" ->
         { NodeRun(node, create_plan(st, r), create_plan_calls(st), <<>>, "done") :
             r \in PlanReplies }
    [] node = "executor" ->
         { NodeRun(node, execute_step(st, r), execute_step_calls(st), <<>>, "done") :
             r \in Responses }
    [] node = "agent" ->
         { NodeRun(node, call_model(st, r), call_model_calls(st), <<>>, "done") :
             r \in Responses }
    [] node = "tools" ->
         LET calls == st.messages[Len(st.messages)].tool_calls IN
         { LET entries == [i \in DOMAIN calls |-> LogEntry(calls[i], os[i])]
           IN  NodeRun(node, tool_node(st, entries), <<>>, entries, tools_status(entries)) :
             os \in CallOutcomes(calls) }

Commit(run, cap) ==
  /\ Len(run.state.messages) <= cap
  /\ state' = run.state
  /\ lastOp' = run.lastOp
  /\ toolLog' = run.toolLog
  /\ decision' = "none"

last_has_tool_calls(st) ==
  /\ st.messages[Len(st.messages)].type = "ai"
  /\ st.messages[Len(st.messages)].tool_calls # <<>>

(***************************************************************************)
(* Spec: the components of agent.py applied to the conversation state in   *)
(* any order, as a caller of the module's functions can.                   *)
(***************************************************************************)
IdleVars ==
  /\ decision = "none"
  /\ lastOp = [node |-> "none", llm |-> <<>>]
  /\ request = NoRequest
  /\ toolLog = <<>>
  /\ sandbox = NoSandbox

Init ==
  /\ state \in { InitialState(q) : q \in Queries }
  /\ pc = "idle"
  /\ IdleVars

\* the caller appends the next user message
UserTurn ==
  /\ pc = "idle"
  /\ Len(state.messages) < MaxMessages
  /\ \E q \in Queries : state' = [state EXCEPT !.messages = Append(@, HumanMessage(q))]
  /\ lastOp' = [node |-> "user", llm |-> <<>>]
  /\ decision' = "none"
  /\ toolLog' = <<>>
  /\ UNCHANGED <<pc, request, sandbox>>

\* the plans announced in the history so far
PlanCount(messages) ==
  Cardinality({ i \in DOMAIN messages : messages[i].kind = "plan_summary" })

\* create_plan may be called again on a state that has a plan, MaxPlans times
Planner ==
  /\ pc = "idle"
  /\ PlanCount(state.messages) < MaxPlans
  /\ \E run \in NodeRuns("planner", state) : Commit(run, MaxMessages)
  /\ UNCHANGED <<pc, request, sandbox>>

Executor ==
  /\ pc = "idle"
  /\ \E run \in NodeRuns("executor", state) : Commit(run, MaxMessages)
  /\ UNCHANGED <<pc, request, sandbox>>

Agent ==
  /\ pc = "idle"
  /\ \E run \in NodeRuns("agent", state) : Commit(run, MaxMessages)
  /\ UNCHANGED <<pc, request, sandbox>>

Tools ==
  /\ pc = "idle"
  /\ last_has_tool_calls(state)
  /\ \E run \in NodeRuns("tools", state) : Commit(run, MaxMessages)
  /\ UNCHANGED <<pc, request, sandbox>>

Router ==
  /\ pc = "idle"
  /\ decision' = route_next_step(state)
  /\ lastOp' = [node |-> "router", llm |-> <<>>]
  /\ toolLog' = <<>>
  /\ UNCHANGED <<state, pc, request, sandbox>>

Next == UserTurn \/ Planner \/ Executor \/ Agent \/ Tools \/ Router

Spec == Init /\ [][Next]_vars

(***************************************************************************)
(* SpecWorkflow: the compiled graph of agent.py, from its entry point.     *)
(*   set_entry_point("agent"); add_conditional_edges("agent",              *)
(*   route_next_step); planner -> executor; executor -> agent;             *)
(*   tools -> agent.                                                       *)
(***************************************************************************)
Nodes == {"planner", "executor", "agent", "tools"}

\* a faulty variant of edge_target: the tools node leads back to the planner
edge_target_tools_to_planner(node) ==
  CASE node = "planner" -> "executor"
    [] node = "executor" -> "agent"
    [] node = "tools" -> "planner"
    [] node = "agent" -> "route"

\* add_edge(node, target); the agent's edge is the conditional one
edge_target(node) ==
  CASE node = "planner" -> "executor"
    [] node = "executor" -> "agent"
    [] node = "tools" -> "agent"
    [] node = "agent" -> "route"

InitWorkflow ==
  /\ state \in { InitialState(q) : q \in Queries }
  /\ pc = "agent"
  /\ IdleVars

\* the node pc names runs, and its edge is followed
RunNode ==
  /\ pc \in Nodes
  /\ \E run \in NodeRuns(pc, state) :
       /\ Commit(run, MaxWorkflowMessages)
       /\ pc' = IF run.status = "done" THEN edge_target(pc) ELSE run.status
  /\ UNCHANGED <<request, sandbox>>

\* the conditional edge: route_next_step names the next node, or the end
FollowEdge ==
  /\ pc = "route"
  /\ decision' = route_next_step(state)
  /\ pc' = decision'
  /\ lastOp' = [node |-> "router", llm |-> <<>>]
  /\ toolLog' = <<>>
  /\ UNCHANGED <<state, request, sandbox>>

\* the turn is over; the caller starts the next one with a new user message
NextTurn ==
  /\ pc = "END"
  /\ Len(state.messages) < MaxWorkflowMessages
  /\ \E q \in Queries : state' = [state EXCEPT !.messages = Append(@, HumanMessage(q))]
  /\ pc' = "agent"
  /\ lastOp' = [node |-> "user", llm |-> <<>>]
  /\ decision' = "none"
  /\ toolLog' = <<>>
  /\ UNCHANGED <<request, sandbox>>

NextWorkflow == RunNode \/ FollowEdge \/ NextTurn

SpecWorkflow == InitWorkflow /\ [][NextWorkflow]_vars

(***************************************************************************)
(* SpecPlanned: the same graph entered at the planner node, the state in   *)
(* which create_plan is about to run on a request.                         *)
(***************************************************************************)
InitPlanned ==
  /\ state \in { InitialState(q) : q \in Queries }
  /\ pc = "planner"
  /\ IdleVars

SpecPlanned == InitPlanned /\ [][NextWorkflow]_vars

(***************************************************************************)
(* SpecTurn: the turns of the compiled graph under the conditions a turn   *)
(* is promised to end in: a node that can run does run, and the model asks *)
(* for tools in at most MaxToolRounds rounds, after which it               *)
(* answers without tool calls.  The turn starts at the entry point or, for *)
(* the plan loop, where the planner has returned its plan; the caller      *)
(* starts at most MaxTurns turns.                                          *)
(***************************************************************************)
\* the answers of the model that ask for tools, in the conversation so far
ToolRounds(messages) ==
  Cardinality({ i \in DOMAIN messages :
                  messages[i].type = "ai" /\ messages[i].tool_calls # <<>> })

\* the runs of a node: after MaxToolRounds answers that ask for tools, the
\* model's answers carry no tool call
TurnRuns(node, st) ==
  { run \in NodeRuns(node, st) :
      \/ ToolRounds(st.messages) < MaxToolRounds
      \/ ToolRounds(run.state.messages) = ToolRounds(st.messages) }

\* room for every message MaxTurns turns can append
TurnCap == 2 * MaxTurns + 2 + 3 * MaxPlanSteps + 3 * MaxToolRounds

InitTurn ==
  \/ /\ state \in { InitialState(q) : q \in Queries }
     /\ pc = "agent"
     /\ IdleVars
  \/ \E q \in Queries : \E run \in NodeRuns("planner", InitialState(q)) :
       /\ state = run.state
       /\ pc = edge_target("planner")
       /\ lastOp = run.lastOp
       /\ toolLog = run.toolLog
       /\ decision = "none"
       /\ request = NoRequest
       /\ sandbox = NoSandbox

RunTurnNode ==
  /\ pc \in Nodes
  /\ \E run \in TurnRuns(pc, state) :
       /\ Commit(run, TurnCap)
       /\ pc' = IF run.status = "done" THEN edge_target(pc) ELSE run.status
  /\ UNCHANGED <<request, sandbox>>

StartTurn ==
  /\ pc = "END"
  /\ Cardinality({ i \in DOMAIN state.messages : state.messages[i].type = "human" }) < MaxTurns
  /\ \E q \in Queries : state' = [state EXCEPT !.messages = Append(@, HumanMessage(q))]
  /\ pc' = "agent"
  /\ lastOp' = [node |-> "user", llm |-> <<>>]
  /\ decision' = "none"
  /\ toolLog' = <<>>
  /\ UNCHANGED <<request, sandbox>>

NextTurns == RunTurnNode \/ FollowEdge \/ StartTurn

SpecTurn ==
  /\ InitTurn
  /\ [][NextTurns]_vars
  /\ WF_vars(RunTurnNode)
  /\ WF_vars(FollowEdge)

(***************************************************************************)
(* SpecTools: one tool call, of either agent, on every request that        *)
(* IsToolRequest admits; the model may repeat the call.                    *)
(***************************************************************************)
InitTools ==
  /\ state = InitialState(CHOOSE q \in Queries : TRUE)
  /\ pc = "idle"
  /\ decision = "none"
  /\ lastOp = [node |-> "none", llm |-> <<>>]
  /\ IsToolRequest(request)
  /\ toolLog = <<>>
  /\ sandbox = NoSandbox

InvokeTool ==
  /\ request # NoRequest
  /\ toolLog = <<>>
  /\ \E o \in Outcomes(request) : toolLog' = <<LogEntry(request, o)>>
  /\ UNCHANGED <<state, pc, decision, lastOp, request, sandbox>>

\* the same call again, as after a ConfirmationRequired warning
RepeatTool ==
  /\ request # NoRequest
  /\ toolLog # <<>>
  /\ \E o \in Outcomes(request) : toolLog' = <<LogEntry(request, o)>>
  /\ UNCHANGED <<state, pc, decision, lastOp, request, sandbox>>

NextTools == InvokeTool \/ RepeatTool

SpecTools == InitTools /\ [][NextTools]_vars

(***************************************************************************)
(* SpecPlanBuilder: create_plan applied once to a history and a reply of   *)
(* the model.  The histories are all short sequences of user messages and  *)
(* model messages, the empty one included, with or without an earlier      *)
(* plan; the replies are numbered lists and plain lines built from known   *)
(* pieces.  request holds the reply the model gives.                       *)
(***************************************************************************)
PlanQueries == Queries \cup { <<"h","i">> }

HistoryMessages ==
  { HumanMessage(q) : q \in PlanQueries }
  \cup { AIMessage("response", "", <<"o","k">>, <<>>) }

Histories == UNION { [1..k -> HistoryMessages] : k \in 0..MaxHistory }

HistoryStates ==
  { [messages |-> h, plan_created |-> FALSE, current_step |-> -1, plan |-> <<>>] :
      h \in Histories }
  \cup { [messages |-> h, plan_created |-> TRUE, current_step |-> 1, plan |-> << <<"A">> >>] :
           h \in Histories }

\* step descriptions and lines a reply is built from
StepTexts == { <<>>, <<"A">>, <<"B"," ","c">>, <<"A"," ">>, <<"v","2">> }

LineTexts == { <<>>, <<" ">>, <<"A">>, <<" ","B"," ","c">> }

Preambles == { <<>>, <<"P",":","\n">> }

RECURSIVE JoinNumbered(_, _)
\* "i. <steps[i]>\n(i+1). <steps[i+1]>..." from item i on
JoinNumbered(steps, i) ==
  IF i > Len(steps) THEN <<>>
  ELSE str_int(i) \o <<".", " ">> \o steps[i]
       \o (IF i < Len(steps) THEN <<"\n">> ELSE <<>>) \o JoinNumbered(steps, i + 1)

RECURSIVE JoinLines(_, _)
\* the lines from line i on, joined by line breaks
JoinLines(lines, i) ==
  IF i > Len(lines) THEN <<>>
  ELSE lines[i] \o (IF i < Len(lines) THEN <<"\n">> ELSE <<>>) \o JoinLines(lines, i + 1)

\* the replies, each with the pieces it was built from
ReplyCases ==
  { [kind |-> "numbered", parts |-> steps, text |-> pre \o JoinNumbered(steps, 1)] :
      steps \in UNION { [1..n -> StepTexts] : n \in 1..MaxPlanSteps }, pre \in Preambles }
  \cup { [kind |-> "lines", parts |-> lines, text |-> JoinLines(lines, 1)] :
           lines \in UNION { [1..n -> LineTexts] : n \in 0..MaxLines } }

PlanReply(text) == [module |-> "model", name |-> "plan_reply", tool |-> <<>>, text |-> text]

InitPlanBuilder ==
  /\ \/ /\ state \in HistoryStates
        /\ request \in { PlanReply(r) : r \in PlanReplies }
     \/ /\ state \in { InitialState(q) : q \in Queries }
        /\ request \in { PlanReply(c.text) : c \in ReplyCases }
  /\ pc = "idle"
  /\ decision = "none"
  /\ lastOp = [node |-> "none", llm |-> <<>>]
  /\ toolLog = <<>>
  /\ sandbox = NoSandbox

BuildPlan ==
  /\ lastOp.node = "none"
  /\ state' = create_plan(state, request.text)
  /\ lastOp' = [node |-> "planner", llm |-> create_plan_calls(state)]
  /\ UNCHANGED <<pc, decision, request, toolLog, sandbox>>

NextPlanBuilder == BuildPlan

SpecPlanBuilder == InitPlanBuilder /\ [][NextPlanBuilder]_vars

(***************************************************************************)
(* SpecSandbox: MaxEvals calls of execute_python_code on accepted snippets *)
(* run at the same time in one process, as the tool calls of one response  *)
(* or of two conversations do.  sys.stdout is one name for the whole       *)
(* process; each call is the sequence of its statements, and the calls     *)
(* interleave statement by statement.  A stream is the console or the      *)
(* StringIO of one of the calls.                                           *)
(***************************************************************************)
\* the snippets call t may be given: what the code is and what it prints
SandboxSnippets(t) ==
  { [code |-> <<"p","a","s","s">>, prints |-> <<>>],
    [code |-> <<"p","r","i","n","t","(">> \o str_int(t) \o <<")">>,
     prints |-> str_int(t) \o <<"\n">>] }

\* the StringIO that call t creates
StringIO(t) == [stream |-> "StringIO", of |-> t]

Evaluation(snippet) ==
  [at |-> "called", code |-> snippet.code, prints |-> snippet.prints,
   old_stdout |-> [stream |-> "unset", of |-> 0], captured_output |-> <<>>,
   result |-> NoResult]

InitSandbox ==
  /\ state = InitialState(CHOOSE q \in Queries : TRUE)
  /\ pc = "idle"
  /\ decision = "none"
  /\ lastOp = [node |-> "none", llm |-> <<>>]
  /\ request = NoRequest
  /\ toolLog = <<>>
  /\ \E snippets \in [1..MaxEvals -> UNION { SandboxSnippets(t) : t \in 1..MaxEvals }] :
       /\ \A t \in 1..MaxEvals : snippets[t] \in SandboxSnippets(t)
       /\ sandbox = [sys_stdout |-> Console, console |-> <<>>,
                     evals |-> [t \in 1..MaxEvals |-> Evaluation(snippets[t])]]

\* the conversation takes no step while the snippets are evaluated
SandboxFrame == UNCHANGED <<state, pc, decision, lastOp, request, toolLog>>

\* old_stdout = sys.stdout
SaveStdout ==
  /\ \E t \in DOMAIN sandbox.evals :
       /\ sandbox.evals[t].at = "called"
       /\ sandbox' = [sandbox EXCEPT !.evals[t].old_stdout = sandbox.sys_stdout,
                                     !.evals[t].at = "saved"]
  /\ SandboxFrame

\* captured_output = StringIO(); sys.stdout = captured_output
RedirectStdout ==
  /\ \E t \in DOMAIN sandbox.evals :
       /\ sandbox.evals[t].at = "saved"
       /\ sandbox' = [sandbox EXCEPT !.sys_stdout = StringIO(t),
                                     !.evals[t].at = "redirected"]
  /\ SandboxFrame

\* exec(code, sandbox_globals): print writes to the stream sys.stdout names
\* at that moment
ExecSnippet ==
  /\ \E t \in DOMAIN sandbox.evals :
       /\ sandbox.evals[t].at = "redirected"
       /\ sandbox' =
            IF sandbox.sys_stdout = Console
            THEN [sandbox EXCEPT !.console = @ \o sandbox.evals[t].prints,
                                 !.evals[t].at = "executed"]
            ELSE [[sandbox EXCEPT !.evals[sandbox.sys_stdout.of].captured_output =
                                    @ \o sandbox.evals[t].prints]
                    EXCEPT !.evals[t].at = "executed"]
  /\ SandboxFrame

\* output = captured_output.getvalue(); return output if output else "..."
GetValue ==
  /\ \E t \in DOMAIN sandbox.evals :
       /\ sandbox.evals[t].at = "executed"
       /\ sandbox' =
            [sandbox EXCEPT
               !.evals[t].result =
                  [tag |-> "Success",
                   prefix |-> IF sandbox.evals[t].captured_output # <<>> THEN ""
                              ELSE "Code executed successfully (no output)",
                   arg |-> sandbox.evals[t].captured_output],
               !.evals[t].at = "valued"]
  /\ SandboxFrame

\* finally: sys.stdout = old_stdout
RestoreStdout ==
  /\ \E t \in DOMAIN sandbox.evals :
       /\ sandbox.evals[t].at = "valued"
       /\ sandbox' = [sandbox EXCEPT !.sys_stdout = sandbox.evals[t].old_stdout,
                                     !.evals[t].at = "returned"]
  /\ SandboxFrame

NextSandbox ==
  SaveStdout \/ RedirectStdout \/ ExecSnippet \/ GetValue \/ RestoreStdout

SpecSandbox == InitSandbox /\ [][NextSandbox]_vars

(***************************************************************************)
(* The vocabulary of the properties: the calls of toolLog, the program     *)
(* and the allowed list of each command runner.                            *)
(***************************************************************************)
CommandRunners ==
  {"run_gcloud_command", "run_gsutil_command", "run_bq_command", "run_kubectl_command"}

\* a command runner of the multi-tool agent (agent_console_updated.py)
IsConsoleRunner(req) == req.module = "console" /\ req.name \in CommandRunners

\* the command runner of agent.py
IsAgentRunner(req) == req.module = "agent" /\ req.name = "run_gcloud_command"

ProgramOf(req) ==
  CASE req.name = "run_gcloud_command" -> GCLOUD
    [] req.name = "run_gsutil_command" -> GSUTIL
    [] req.name = "run_bq_command" -> BQ
    [] req.name = "run_kubectl_command" -> KUBECTL

AllowedOf(req) ==
  CASE req.name = "run_gcloud_command" -> ALLOWED_GCLOUD_COMMANDS
    [] req.name = "run_gsutil_command" -> ALLOWED_GSUTIL_COMMANDS
    [] req.name = "run_bq_command" -> ALLOWED_BQ_COMMANDS
    [] req.name = "run_kubectl_command" -> ALLOWED_KUBECTL_COMMANDS

\* the text begins with the program name followed by a space
HasPrefix(req, text) == startswith(text, ProgramOf(req) \o <<" ">>)

\* a destructive keyword is one of the whitespace-delimited tokens of text
HasDestructiveToken(text) ==
  \E k \in DOMAIN DESTRUCTIVE_COMMANDS : in_list(DESTRUCTIVE_COMMANDS[k], split(text))

IsPrefix(s, t) == Len(s) <= Len(t) /\ SubSeq(t, 1, Len(s)) = s

(***************************************************************************)
(* C1, as stated: for each command runner and every command that does not  *)
(* begin with the program name followed by a space, the call returns       *)
(* MalformedCommand and no process is started.                             *)
(* It does not hold: the runners of the multi-tool agent test the command  *)
(* with its surrounding whitespace removed (" gcloud compute x" is run),   *)
(* and run_gcloud_command of agent.py adds the prefix and runs the         *)
(* command.                                                                *)
(***************************************************************************)
C1_MalformedUnlessPrefixed ==
  \A i \in DOMAIN toolLog :
    LET req == toolLog[i].request
        eff == toolLog[i].effect
    IN  (IsConsoleRunner(req) \/ IsAgentRunner(req)) /\ ~HasPrefix(req, req.text)
          => eff.result.tag = "MalformedCommand" /\ eff.spawned = <<>>

(***************************************************************************)
(* C1, amended: for each of the four runners of the multi-tool agent and   *)
(* every command that, with leading and trailing whitespace removed, does  *)
(* not begin with the program name followed by a space, the call returns   *)
(* MalformedCommand and no process is started; run_gcloud_command of       *)
(* agent.py returns no MalformedCommand: it puts "gcloud " in front of a   *)
(* command that does not begin with it and hands the result to the shell.  *)
(***************************************************************************)
C1_MalformedUnlessPrefixedAfterStrip ==
  \A i \in DOMAIN toolLog :
    LET req == toolLog[i].request
        eff == toolLog[i].effect
    IN  /\ IsConsoleRunner(req) /\ ~HasPrefix(req, strip(req.text))
             => eff.result.tag = "MalformedCommand" /\ eff.spawned = <<>>
        /\ IsAgentRunner(req) /\ ~HasPrefix(req, req.text)
             => /\ eff.result.tag # "MalformedCommand"
                /\ eff.spawned = << GCLOUD \o <<" ">> \o req.text >>

\* a command of two tokens without the prefix was refused as malformed
C1_Witness ==
  \E i \in DOMAIN toolLog :
    LET req == toolLog[i].request
        eff == toolLog[i].effect
    IN  /\ IsConsoleRunner(req)
        /\ Len(split(req.text)) >= 2
        /\ ~HasPrefix(req, strip(req.text))
        /\ eff.result.tag = "MalformedCommand"
        /\ eff.spawned = <<>>

(***************************************************************************)
(* C2: for each of the four gated runners and every command that has the   *)
(* program prefix and whose next whitespace-delimited token is not in the  *)
(* program's allowed list, the call returns CategoryNotAllowed, naming     *)
(* that token, and no process is started.                                  *)
(***************************************************************************)
C2_CategoryNotAllowed ==
  \A i \in DOMAIN toolLog :
    LET req == toolLog[i].request
        eff == toolLog[i].effect
        tokens == split(req.text)
    IN  /\ IsConsoleRunner(req)
        /\ HasPrefix(req, req.text)
        /\ Len(tokens) >= 2
        /\ ~in_list(tokens[2], AllowedOf(req))
        => /\ eff.result.tag = "CategoryNotAllowed"
           /\ eff.result.arg = tokens[2]
           /\ eff.spawned = <<>>

\* run_gsutil_command refused a category that is not in its list
C2_Witness ==
  \E i \in DOMAIN toolLog :
    LET req == toolLog[i].request
        eff == toolLog[i].effect
    IN  /\ req.module = "console" /\ req.name = "run_gsutil_command"
        /\ HasPrefix(req, req.text)
        /\ Len(split(req.text)) >= 2
        /\ ~in_list(split(req.text)[2], ALLOWED_GSUTIL_COMMANDS)
        /\ eff.result.tag = "CategoryNotAllowed"
        /\ eff.spawned = <<>>

(***************************************************************************)
(* C3, as stated: for every command whose whitespace-token list contains a *)
(* destructive keyword, the gate returns ConfirmationRequired and no       *)
(* process is started during the call.                                     *)
(* It does not hold: the prefix and the category are tested first, so      *)
(* "rm x" returns MalformedCommand and "gcloud x delete" returns           *)
(* CategoryNotAllowed.                                                     *)
(***************************************************************************)
C3_DestructiveAlwaysConfirmed ==
  \A i \in DOMAIN toolLog :
    LET req == toolLog[i].request
        eff == toolLog[i].effect
    IN  IsConsoleRunner(req) /\ HasDestructiveToken(req.text)
          => eff.result.tag = "ConfirmationRequired" /\ eff.spawned = <<>>

(***************************************************************************)
(* C3, amended: for every command that passes the prefix test and the      *)
(* category test and whose whitespace-token list contains a destructive    *)
(* keyword, the gate returns ConfirmationRequired, naming a destructive    *)
(* keyword among the tokens; and for every command whose token list        *)
(* contains a destructive keyword, whatever the gate returns, no process   *)
(* is started during the call.                                             *)
(***************************************************************************)
C3_DestructiveConfirmedWhenAdmissible ==
  \A i \in DOMAIN toolLog :
    LET req == toolLog[i].request
        eff == toolLog[i].effect
        tokens == split(req.text)
    IN  IsConsoleRunner(req) /\ HasDestructiveToken(req.text)
          => /\ eff.spawned = <<>>
             /\ eff.result.tag \in {"MalformedCommand", "CategoryNotAllowed",
                                    "ConfirmationRequired"}
             /\ ( /\ HasPrefix(req, strip(req.text))
                  /\ Len(tokens) >= 2
                  /\ in_list(tokens[2], AllowedOf(req))
                  => /\ eff.result.tag = "ConfirmationRequired"
                     /\ in_list(eff.result.arg, DESTRUCTIVE_COMMANDS)
                     /\ in_list(eff.result.arg, tokens) )

\* "gsutil rm ..." (or the like of another runner) was answered with the warning
C3_Witness ==
  \E i \in DOMAIN toolLog :
    LET req == toolLog[i].request
        eff == toolLog[i].effect
    IN  /\ IsConsoleRunner(req)
        /\ HasDestructiveToken(req.text)
        /\ Len(split(req.text)) >= 2
        /\ in_list(split(req.text)[2], AllowedOf(req))
        /\ eff.result.tag = "ConfirmationRequired"
        /\ eff.spawned = <<>>

(***************************************************************************)
(* C4: every start of an external process is preceded, within the same     *)
(* tool call, by a gate decision that admitted the command; no tool of     *)
(* either agent starts a process for a command line that was not admitted. *)
(* The code does not do this: run_gcloud_command of agent.py has its       *)
(* checks commented out, and the help tools build and run a command line   *)
(* without any gate.                                                       *)
(***************************************************************************)
C4_ProcessOnlyWhenAdmitted ==
  \A i \in DOMAIN toolLog :
    toolLog[i].effect.spawned # <<>> => toolLog[i].effect.gate = "Admitted"

(***************************************************************************)
(* C10: for every snippet whose text contains a marker of the deny-list as *)
(* a substring, execute_python_code returns SafetyRejected naming a marker *)
(* that occurs in the snippet, without calling exec and without replacing  *)
(* sys.stdout; "import os; os.system('ls')" is rejected naming os.system.  *)
(***************************************************************************)
ExampleSnippet ==
  <<"i","m","p","o","r","t"," ","o","s",";"," ",
    "o","s",".","s","y","s","t","e","m","(","'","l","s","'",")">>

C10_MarkedSnippetRejected ==
  \A i \in DOMAIN toolLog :
    LET req == toolLog[i].request
        eff == toolLog[i].effect
    IN  /\ req.name = "execute_python_code"
        /\ \E k \in DOMAIN dangerous_modules : contains(req.text, dangerous_modules[k])
        => /\ eff.outcome = "returned"
           /\ eff.result.tag = "SafetyRejected"
           /\ in_list(eff.result.arg, dangerous_modules)
           /\ contains(req.text, eff.result.arg)
           /\ ~eff.evaluated
           /\ ~eff.redirected
           /\ eff.spawned = <<>>
           /\ (req.text = ExampleSnippet
                 => eff.result.arg = <<"o","s",".","s","y","s","t","e","m">>)

\* the example snippet was rejected, naming os.system
C10_Witness ==
  \E i \in DOMAIN toolLog :
    /\ toolLog[i].request.name = "execute_python_code"
    /\ toolLog[i].request.text = ExampleSnippet
    /\ toolLog[i].effect.result.tag = "SafetyRejected"
    /\ toolLog[i].effect.result.arg = <<"o","s",".","s","y","s","t","e","m">>
    /\ ~toolLog[i].effect.evaluated

(***************************************************************************)
(* The four-rule table of the router, as the specification words it.       *)
(***************************************************************************)
LastMessage(st) == st.messages[Len(st.messages)]

RouterTable(st) ==
  IF ~st.plan_created /\ LastMessage(st).type = "human" THEN "planner"
  ELSE IF st.plan_created /\ st.current_step < Len(st.plan) - 1 THEN "executor"
  ELSE IF LastMessage(st).tool_calls # <<>> THEN "tools"
  ELSE "END"

\* rule 1 or rule 2 decides, or the most recent message is the model's
RouterTableApplies(st) ==
  \/ ~st.plan_created /\ LastMessage(st).type = "human"
  \/ st.plan_created /\ st.current_step < Len(st.plan) - 1
  \/ LastMessage(st).type = "ai"

C6_PlannerRunsBeforeEnd ==
  pc = "END" => state.plan_created

(***************************************************************************)
(* C7: once the planner has produced a plan of n >= 1 steps, the workflow  *)
(* runs the executor on steps 0 .. n-1 in order, each once, before the     *)
(* turn ends; the turn ends with current_step = n and the completion       *)
(* announcement in the history.                                            *)
(* The code does not do this for n >= 2: after step n-2 the router tests   *)
(* current_step < len(plan) - 1, which is false at n-1, and the last step  *)
(* is never run.                                                           *)
(***************************************************************************)
ProgressMessages(messages) ==
  SelectSeq(messages, LAMBDA m : m.kind = "progress")

C7_AllStepsRunBeforeEnd ==
  pc = "END" /\ state.plan_created /\ Len(state.plan) >= 1 =>
    LET progress == ProgressMessages(state.messages) IN
    /\ state.current_step = Len(state.plan)
    /\ \E i \in DOMAIN state.messages : state.messages[i].kind = "completion"
    /\ Len(progress) = Len(state.plan)
    /\ \A k \in DOMAIN progress :
         progress[k].body = str_int(k) \o <<"/">> \o str_int(Len(state.plan))
                              \o <<":", " ">> \o state.plan[k]

(***************************************************************************)
(* C8: in every state reachable from the initial state by any sequence of  *)
(* planner, executor, model call, tool dispatch and router evaluations,    *)
(* current_step is -1 or satisfies 0 <= current_step <= len(plan).         *)
(***************************************************************************)
C8_CurrentStepInRange ==
  \/ state.current_step = -1
  \/ 0 <= state.current_step /\ state.current_step <= Len(state.plan)

\* the plan is exhausted: the executor has moved the cursor to len(plan)
C8_Witness ==
  /\ lastOp.node = "executor"
  /\ Len(state.plan) >= 1
  /\ state.current_step = Len(state.plan)

(***************************************************************************)
(* C9: the message history is append-only: across every step (planner,     *)
(* executor, model call, tool dispatch, router, a new user message) the    *)
(* history before the step is an unmodified prefix of the history after.   *)
(***************************************************************************)
C9_HistoryAppendOnly ==
  [][IsPrefix(state.messages, state'.messages)]_vars

\* the executor has appended its messages after the request and the plan
C9_Witness ==
  /\ lastOp.node = "executor"
  /\ Len(state.messages) >= 4
  /\ state.messages[1].type = "human"
  /\ state.messages[2].kind = "plan_summary"
  /\ state.messages[3].kind = "progress"

(***************************************************************************)
(* The calls of toolLog that handed a command line to subprocess.run, and  *)
(* the text a call returned.                                               *)
(***************************************************************************)
RanProcess(entry) == entry.effect.spawned # <<>>

ReturnedEmptyString(entry) ==
  /\ entry.effect.outcome = "returned"
  /\ entry.effect.result.prefix = ""
  /\ entry.effect.result.arg = <<>>

(***************************************************************************)
(* C11: for every accepted snippet, any failure raised while it is         *)
(* evaluated, interpreter-exit requests included, becomes an               *)
(* ExecutionError result; execute_python_code never lets a fault reach its *)
(* caller.                                                                 *)
(* The code does not do this: exec runs under "except Exception", and      *)
(* SystemExit is no Exception; the snippet "raise SystemExit" leaves the   *)
(* tool as an exception.                                                   *)
(***************************************************************************)
C11_SnippetFaultsReturned ==
  \A i \in DOMAIN toolLog :
    toolLog[i].request.name = "execute_python_code" /\ toolLog[i].effect.evaluated
      => /\ toolLog[i].effect.outcome = "returned"
         /\ toolLog[i].effect.raised = ""
         /\ toolLog[i].effect.result.tag \in {"Success", "ExecutionError"}

(***************************************************************************)
(* C12: every tool that runs an external process returns its failures as a *)
(* text result and never raises, the command runners and the help tools    *)
(* alike.                                                                  *)
(* The code does not do this in the help tools: they catch                 *)
(* CalledProcessError only, so a failure of subprocess.run to start the    *)
(* process leaves get_gcloud_help and get_tool_help as an exception.       *)
(***************************************************************************)
C12_ProcessFailuresReturned ==
  \A i \in DOMAIN toolLog :
    RanProcess(toolLog[i])
      => /\ toolLog[i].effect.raised = ""
         /\ toolLog[i].effect.outcome = "returned"
              => toolLog[i].effect.result.tag \in {"Success", "ExecutionError"}

(***************************************************************************)
(* C13: every successful execution of an external command whose stdout is  *)
(* empty yields a non-empty sentinel string; no tool that runs an external *)
(* process ever returns the empty string.                                  *)
(* The code does not do this in the help tools: they return result.stdout  *)
(* as it is, the empty string included.                                    *)
(***************************************************************************)
C13_NeverEmptyResult ==
  \A i \in DOMAIN toolLog :
    RanProcess(toolLog[i]) => ~ReturnedEmptyString(toolLog[i])

(***************************************************************************)
(* C14: a call that runs an external command always returns: when the      *)
(* process never exits the tool still returns, with an ExecutionError.     *)
(* The code does not do this: subprocess.run is called without a timeout,  *)
(* so the call waits for the process for ever.                             *)
(***************************************************************************)
C14_ProcessCallReturns ==
  \A i \in DOMAIN toolLog :
    RanProcess(toolLog[i]) => toolLog[i].effect.outcome # "blocked"

(***************************************************************************)
(* The executor's cases, as the specification words them.                  *)
(***************************************************************************)
\* 0 <= currentStep < len(plan)
StepPending(st) == 0 <= st.current_step /\ st.current_step < Len(st.plan)

\* "Step i/n: <description>" for the pending step of st
ProgressText(st) ==
  str_int(st.current_step + 1) \o <<"/">> \o str_int(Len(st.plan))
    \o <<":", " ">> \o st.plan[st.current_step + 1]

ExecutePrompt ==
  <<"P","l","e","a","s","e"," ","e","x","e","c","u","t","e"," ",
    "t","h","i","s"," ","s","t","e","p",":"," ">>

IsCompletion(m) ==
  m.type = "ai" /\ m.kind = "completion" /\ m.tool_calls = <<>>

CompletionCount(messages) ==
  Cardinality({ i \in DOMAIN messages : IsCompletion(messages[i]) })

(***************************************************************************)
(* C15: the executor invoked with current_step outside [0, len(plan)),     *)
(* -1 and len(plan) included, returns the state unchanged: no message is   *)
(* appended, no model call is made, current_step, plan and plan_created    *)
(* keep their values; invoking it again changes nothing.                   *)
(***************************************************************************)
C15_OutOfRangeIsNoOp ==
  /\ ~StepPending(state) =>
       /\ execute_step_calls(state) = <<>>
       /\ \A r \in Responses :
            /\ execute_step(state, r) = state
            /\ \A r2 \in Responses : execute_step(execute_step(state, r), r2) = state
  \* a run of the executor without a model call was such an invocation
  /\ lastOp.node = "executor" /\ lastOp.llm = <<>> => ~StepPending(state)

\* the executor was invoked on an exhausted plan and did nothing
C15_Witness ==
  /\ lastOp.node = "executor"
  /\ lastOp.llm = <<>>
  /\ Len(state.plan) >= 1
  /\ state.current_step = Len(state.plan)
  /\ CompletionCount(state.messages) = 1

(***************************************************************************)
(* C16: the executor invoked with 0 <= current_step < len(plan) advances   *)
(* exactly one step: it appends the progress message                       *)
(* "Step (current_step+1)/len(plan): plan[current_step]", makes exactly    *)
(* one model call whose input holds only the description of that step (no  *)
(* other step, no history), appends the model's response after the         *)
(* progress message, and sets current_step to current_step + 1.            *)
(***************************************************************************)
C16_PendingStepAdvancesByOne ==
  StepPending(state) =>
    LET n == Len(state.messages)
        calls == execute_step_calls(state)
    IN  /\ Len(calls) = 1
        /\ calls[1].input = <<HumanMessage(ExecutePrompt \o state.plan[state.current_step + 1])>>
        /\ \A r \in Responses :
             LET after == execute_step(state, r) IN
             /\ IsPrefix(state.messages, after.messages)
             /\ Len(after.messages) \in {n + 2, n + 3}
             /\ after.messages[n + 1].type = "ai"
             /\ after.messages[n + 1].body = ProgressText(state)
             /\ after.messages[n + 1].tool_calls = <<>>
             /\ after.messages[n + 2] = r
             /\ after.current_step = state.current_step + 1
             /\ after.plan = state.plan
             /\ after.plan_created = state.plan_created

\* the executor ran the first step of a longer plan: one model call, shown
\* that step alone, and the progress message and the response at the end
C16_Witness ==
  /\ lastOp.node = "executor"
  /\ Len(lastOp.llm) = 1
  /\ Len(state.plan) >= 2
  /\ state.current_step = 1
  /\ lastOp.llm[1].input = <<HumanMessage(ExecutePrompt \o state.plan[1])>>
  /\ state.messages[Len(state.messages)].kind = "response"
  /\ state.messages[Len(state.messages) - 1].kind = "progress"

(***************************************************************************)
(* C17: an invocation of the executor appends the completion announcement  *)
(* if and only if the incremented current_step equals len(plan); when      *)
(* appended it is the last message of the history, right after the model's *)
(* response of that step; and it is appended at most once over a run of    *)
(* the workflow.                                                           *)
(***************************************************************************)
C17_CompletionOnlyAtPlanEnd ==
  /\ CompletionCount(state.messages) <= 1
  /\ \A r \in Responses :
       LET after == execute_step(state, r)
           n == Len(after.messages)
           added == CompletionCount(after.messages) - CompletionCount(state.messages)
       IN  /\ added \in {0, 1}
           /\ added = 1 <=> /\ StepPending(state)
                            /\ state.current_step + 1 = Len(state.plan)
           /\ added = 1 => /\ IsCompletion(after.messages[n])
                           /\ after.messages[n - 1] = r
                           /\ Len(after.messages) = Len(state.messages) + 3

\* the executor ran the only step of a plan and announced the completion last
C17_Witness ==
  /\ lastOp.node = "executor"
  /\ state.current_step = Len(state.plan)
  /\ IsCompletion(state.messages[Len(state.messages)])
  /\ state.messages[Len(state.messages) - 1].kind = "response"
  /\ CompletionCount(state.messages) = 1

(***************************************************************************)
(* C18: the executor never runs a tool itself, and every tool-call request *)
(* carried by the model response the executor appended is routed to the    *)
(* tool dispatch by the router before the turn ends.  A dispatch answers   *)
(* each request with a tool message, so at the end of the turn a tool      *)
(* message follows every response of the executor that carries requests.   *)
(* The code does not do this: the edge executor -> agent has the model     *)
(* answer again before the router is evaluated, the router and ToolNode    *)
(* read the most recent message only, and the requests of the executor's   *)
(* response are never dispatched.                                          *)
(***************************************************************************)
C18_ExecutorRequestsDispatched ==
  /\ lastOp.node = "executor" => toolLog = <<>>
  /\ pc = "END" =>
       \A i \in 2..Len(state.messages) :
         /\ state.messages[i - 1].kind = "progress"
         /\ state.messages[i].tool_calls # <<>>
         => \E j \in (i + 1)..Len(state.messages) : state.messages[j].type = "tool"

(***************************************************************************)
(* The planner's cases, as the specification words them.                   *)
(***************************************************************************)
NoUserMessage(messages) == \A i \in DOMAIN messages : messages[i].type # "human"

RECURSIVE LatestUserText(_)
\* the text of the first user-authored message found scanning backward
LatestUserText(messages) ==
  IF messages[Len(messages)].type = "human"
  THEN messages[Len(messages)].body
  ELSE LatestUserText(SubSeq(messages, 1, Len(messages) - 1))

\* the pieces with surrounding whitespace removed, the blank ones left out
TrimmedNonBlank(parts) ==
  LET kept == SelectSeq(parts, LAMBDA t : strip(t) # <<>>)
  IN  [i \in DOMAIN kept |-> strip(kept[i])]

\* the plan the three-tier policy gives for a reply built from known pieces:
\* the item texts of a numbered list, else the non-blank lines, else the reply
PolicyPlan(c) ==
  IF TrimmedNonBlank(c.parts) # <<>> THEN TrimmedNonBlank(c.parts)
  ELSE <<strip(c.text)>>

(***************************************************************************)
(* C19: the planner invoked on a history without a user-authored message   *)
(* makes no model call, leaves the messages unchanged and returns an empty *)
(* plan, current_step = -1 and plan_created = true; when a user message    *)
(* exists, the one planned for is the latest one, found scanning backward. *)
(***************************************************************************)
C19_PlanForLatestUserMessage ==
  /\ lastOp.node = "none" /\ NoUserMessage(state.messages) =>
       /\ create_plan_calls(state) = <<>>
       /\ create_plan(state, request.text) =
            [messages |-> state.messages, plan |-> <<>>,
             current_step |-> -1, plan_created |-> TRUE]
  /\ lastOp.node = "planner" /\ NoUserMessage(state.messages) =>
       /\ lastOp.llm = <<>>
       /\ state.plan = <<>>
       /\ state.current_step = -1
       /\ state.plan_created
  /\ lastOp.node = "planner" /\ ~NoUserMessage(state.messages) =>
       /\ Len(lastOp.llm) = 1
       /\ lastOp.llm[1].input = <<HumanMessage(LatestUserText(state.messages))>>

\* the planner ran on a non-empty history of model messages only
C19_Witness ==
  /\ lastOp.node = "planner"
  /\ state.messages # <<>>
  /\ NoUserMessage(state.messages)
  /\ lastOp.llm = <<>>
  /\ state.plan = <<>>
  /\ state.plan_created

(***************************************************************************)
(* C20: the planner's parsing of the model's reply r equals the three-tier *)
(* policy for every r: the item texts of the numbered list in r, each      *)
(* running up to the next numbered item or the end of text; else the       *)
(* non-blank lines of r; else the single item r.  "1. A\n2. B\n3. C"       *)
(* yields the plan A, B, C with current_step = 0, and a one-line reply     *)
(* yields a one-step plan holding the line.  Items and lines are compared  *)
(* with their surrounding whitespace removed, blank items left out.        *)
(* The code does not do this for every r: the pattern's \s* after the      *)
(* period of an item runs over line breaks, so an item without text        *)
(* swallows the header of the next one: "1. A\n2. \n3. C" yields the plan  *)
(* A, "3. C".                                                              *)
(***************************************************************************)
C20_ParsingFollowsPolicy ==
  lastOp.node = "planner" /\ ~NoUserMessage(state.messages) =>
    /\ \A c \in ReplyCases :
         /\ c.text = request.text
         \* a numbered list with at least one item that has text
         /\ c.kind = "numbered" => TrimmedNonBlank(c.parts) # <<>>
         => /\ state.plan = PolicyPlan(c)
            /\ state.current_step = 0
    /\ request.text = <<"1","."," ","A","\n","2","."," ","B","\n","3","."," ","C">>
         => state.plan = << <<"A">>, <<"B">>, <<"C">> >> /\ state.current_step = 0
    /\ request.text = <<"R","u","n"," ","g","s","u","t","i","l"," ","l","s">>
         => state.plan = << <<"R","u","n"," ","g","s","u","t","i","l"," ","l","s">> >>

\* "1. <steps[1]>\n2. <steps[2]>\n...": the steps numbered from 1, in order
EnumeratedSteps(steps) ==
  Flatten([i \in DOMAIN steps |-> str_int(i) \o <<".", " ">> \o steps[i] \o <<"\n">>])

\* st.messages is before followed by the one summary of the steps of st.plan
SummaryAppended(before, st) ==
  LET n == Len(before) IN
  /\ Len(st.messages) = n + 1
  /\ IsPrefix(before, st.messages)
  /\ st.messages[n + 1].type = "ai"
  /\ st.messages[n + 1].kind = "plan_summary"
  /\ st.messages[n + 1].body = EnumeratedSteps(st.plan)
  /\ st.messages[n + 1].tool_calls = <<>>

(***************************************************************************)
(* C21: after the planner runs on a history that holds a user message,     *)
(* plan_created is true, plan is the step list parsed from the reply,      *)
(* current_step is 0 when the plan is non-empty and -1 when it is empty,   *)
(* exactly one message is appended when the plan is non-empty, the summary *)
(* that enumerates the steps numbered from 1 in plan order (none when it   *)
(* is empty), and exactly one model call is made.                          *)
(***************************************************************************)
C21_PlannerPostState ==
  /\ lastOp.node = "none" /\ ~NoUserMessage(state.messages) =>
       LET after == create_plan(state, request.text) IN
       /\ Len(create_plan_calls(state)) = 1
       /\ after.plan_created
       /\ after.plan = parse_plan(request.text)
       /\ after.current_step = IF after.plan # <<>> THEN 0 ELSE -1
       /\ IF after.plan # <<>>
          THEN SummaryAppended(state.messages, after)
          ELSE after.messages = state.messages
  /\ lastOp.node = "planner" /\ ~NoUserMessage(state.messages) =>
       /\ Len(lastOp.llm) = 1
       /\ state.plan_created
       /\ state.plan = parse_plan(request.text)
       /\ state.current_step = IF state.plan # <<>> THEN 0 ELSE -1
       /\ state.plan # <<>> =>
            SummaryAppended(SubSeq(state.messages, 1, Len(state.messages) - 1), state)

\* the planner made a plan of two steps and announced it after a history of
\* three messages
C21_Witness ==
  /\ lastOp.node = "planner"
  /\ Len(lastOp.llm) = 1
  /\ state.plan = << <<"A">>, <<"B">> >>
  /\ state.current_step = 0
  /\ state.plan_created
  /\ Len(state.messages) = 4
  /\ state.messages[4].kind = "plan_summary"
  /\ state.messages[4].body = <<"1", ".", " ", "A", "\n", "2", ".", " ", "B", "\n">>

(***************************************************************************)
(* C22: the planner runs at most once in a run of the workflow: once       *)
(* plan_created is true it stays true, the router never selects the        *)
(* planner again, no edge of the graph leads to the planner, and the plan  *)
(* that exists is never replaced.                                          *)
(***************************************************************************)
C22_PlannerRunsAtMostOnce ==
  /\ [](/\ \A node \in Nodes : edge_target(node) # "planner"
        /\ state.plan_created => route_next_step(state) # "planner"
        /\ pc = "planner" => ~state.plan_created
        /\ PlanCount(state.messages) <= 1)
  /\ [][state.plan_created =>
          state'.plan_created /\ state'.plan = state.plan]_vars

\* in a later turn, after a new user message, the router was evaluated on a
\* state that has a plan and ended the turn
C22_Witness ==
  /\ lastOp.node = "router"
  /\ state.plan_created
  /\ PlanCount(state.messages) = 1
  /\ decision = "END"
  /\ \E i, j \in DOMAIN state.messages :
       /\ i < j
       /\ state.messages[i].kind = "plan_summary"
       /\ state.messages[j].type = "human"

\* plan, plan_created and current_step of a conversation state
PlanFields(st) == <<st.plan, st.plan_created, st.current_step>>

(***************************************************************************)
(* C23: plan, plan_created and current_step change only in steps of the    *)
(* planner, which sets all three, and in steps of the executor, which      *)
(* changes current_step only and leaves plan and plan_created as they are; *)
(* the router, the direct model call and the tool dispatch leave all three *)
(* unchanged, and the router changes no part of the conversation state.    *)
(***************************************************************************)
C23_PlanFieldsFrame ==
  [][/\ PlanFields(state') # PlanFields(state)
          => lastOp'.node \in {"planner", "executor"}
     /\ lastOp'.node = "planner"
          => /\ state'.plan_created
             /\ state'.current_step = IF state'.plan # <<>> THEN 0 ELSE -1
     /\ lastOp'.node = "executor"
          => /\ state'.plan = state.plan
             /\ state'.plan_created = state.plan_created
     /\ lastOp'.node \in {"agent", "tools"} => PlanFields(state') = PlanFields(state)
     /\ lastOp'.node = "router" => state' = state]_vars

\* the tools were dispatched in the middle of a plan, and the cursor and the
\* plan stand as the executor left them
C23_Witness ==
  /\ lastOp.node = "tools"
  /\ toolLog # <<>>
  /\ state.messages[Len(state.messages)].type = "tool"
  /\ state.plan_created
  /\ Len(state.plan) >= 2
  /\ state.current_step = 1

\* a token of text holds a destructive keyword without being one
HasKeywordInsideToken(text) ==
  \E k \in DOMAIN split(text) : \E d \in DOMAIN DESTRUCTIVE_COMMANDS :
    /\ contains(split(text)[k], DESTRUCTIVE_COMMANDS[d])
    /\ split(text)[k] # DESTRUCTIVE_COMMANDS[d]

(***************************************************************************)
(* C24: the destructive-keyword check matches on token identity, not on    *)
(* substrings: a command with the required prefix and an allowed category, *)
(* none of whose whitespace-delimited tokens equals a destructive keyword, *)
(* is not answered with ConfirmationRequired, even when a token holds a    *)
(* keyword as a substring ("created", "--format=clear"); it is admitted    *)
(* and handed to the process execution.                                    *)
(***************************************************************************)
C24_DestructiveByTokenIdentity ==
  /\ \A i \in DOMAIN toolLog :
       LET req == toolLog[i].request
           eff == toolLog[i].effect
           tokens == split(req.text)
       IN  /\ IsConsoleRunner(req)
           /\ HasPrefix(req, strip(req.text))
           /\ Len(tokens) >= 2
           /\ in_list(tokens[2], AllowedOf(req))
           /\ \A k \in DOMAIN tokens : \A d \in DOMAIN DESTRUCTIVE_COMMANDS :
                tokens[k] # DESTRUCTIVE_COMMANDS[d]
           => /\ eff.result.tag # "ConfirmationRequired"
              /\ eff.gate = "Admitted"
              /\ eff.spawned = <<req.text>>
  /\ \A i \in DOMAIN toolLog :
       /\ IsConsoleRunner(toolLog[i].request)
       /\ toolLog[i].request.text \in {CreatedCommand, FormatClearCommand}
       => /\ toolLog[i].effect.gate = "Admitted"
          /\ toolLog[i].effect.spawned = <<toolLog[i].request.text>>

\* "gsutil ls --format=clear" was admitted and run
C24_Witness ==
  \E i \in DOMAIN toolLog :
    /\ IsConsoleRunner(toolLog[i].request)
    /\ toolLog[i].request.text = FormatClearCommand
    /\ HasKeywordInsideToken(toolLog[i].request.text)
    /\ ~HasDestructiveToken(toolLog[i].request.text)
    /\ toolLog[i].effect.gate = "Admitted"
    /\ toolLog[i].effect.spawned = <<toolLog[i].request.text>>

(***************************************************************************)
(* C25: in the multi-tool agent, after any sequence of tool calls, a       *)
(* repeat of the same command after a ConfirmationRequired warning         *)
(* included, no command line whose token list holds a destructive keyword  *)
(* is handed to the process execution; "gsutil rm", "bq rm" and "kubectl   *)
(* delete" are never run.                                                  *)
(* The code does this in its four command runners only: get_tool_help, a   *)
(* tool of the same agent, builds "<tool> <topic> --help" from its         *)
(* arguments and runs it through the shell without the gate, so            *)
(* "kubectl delete --help" is handed to the process execution.             *)
(***************************************************************************)
C25_DestructiveNeverRun ==
  \A i \in DOMAIN toolLog :
    toolLog[i].request.module = "console" =>
      \A k \in DOMAIN toolLog[i].effect.spawned :
        ~HasDestructiveToken(toolLog[i].effect.spawned[k])

\* the turn is over: the router ended it, or a tool call did not return
TurnOver == pc \in {"END", "blocked", "aborted"}

(***************************************************************************)
(* C26: every turn terminates.  Provided each model call and tool call     *)
(* returns and the model answers without tool calls after finitely many    *)
(* tool rounds, the router eventually selects the end of the turn (a turn  *)
(* in which a tool call does not return stops at that call).  The plan     *)
(* loop cannot cycle for ever: current_step never decreases, every run of  *)
(* the executor in the workflow increases it by one, and the executor runs *)
(* at most len(plan) times per plan.                                       *)
(***************************************************************************)
C26_TurnTerminates ==
  /\ (pc \in Nodes \cup {"route"}) ~> TurnOver
  /\ [](Len(ProgressMessages(state.messages)) <= Len(state.plan))
  /\ [][/\ state'.current_step >= state.current_step
        /\ pc = "executor" => state'.current_step = state.current_step + 1]_vars

\* a turn that ran the plan loop and a round of tools was ended by the router
C26_Witness ==
  /\ pc = "END"
  /\ decision = "END"
  /\ Len(state.plan) >= 3
  /\ Len(ProgressMessages(state.messages)) = 2
  /\ \E i \in DOMAIN state.messages : state.messages[i].type = "tool"

\* what the call returns when it runs alone and its snippet prints this text
ResultAlone(eval) ==
  execute_python_code(eval.code, Outcome("ok", <<>>, <<>>, eval.prints)).result

(***************************************************************************)
(* C27: evaluations of the sandbox that run at the same time do not        *)
(* disturb each other through the state of the process: under every        *)
(* interleaving each evaluation returns exactly the output its own snippet *)
(* printed, and once all have finished sys.stdout is the stream that was   *)
(* installed before any of them started.                                   *)
(* The code does not do this: sys.stdout is replaced for the whole         *)
(* process.  When a second call redirects it while the first one is        *)
(* running, the first snippet prints into the second call's buffer and     *)
(* returns as if it had printed nothing; and a call that saved another     *)
(* call's buffer as old_stdout leaves that buffer installed at the end.    *)
(***************************************************************************)
C27_SandboxEvaluationsIsolated ==
  /\ \A t \in DOMAIN sandbox.evals :
       sandbox.evals[t].at \in {"valued", "returned"}
         => sandbox.evals[t].result = ResultAlone(sandbox.evals[t])
  /\ (\A t \in DOMAIN sandbox.evals : sandbox.evals[t].at = "returned")
       => sandbox.sys_stdout = Console

(***************************************************************************)
(* C28: every step description the planner stores in plan is a non-empty   *)
(* string after its surrounding whitespace is removed, for every reply of  *)
(* the model, the empty and the whitespace-only reply included: blank      *)
(* entries are filtered out and never become a step the executor is asked  *)
(* to run.                                                                 *)
(* The code does not do this for a blank reply: when the filter leaves no  *)
(* step, the stripped reply itself is made the only step, and for a blank  *)
(* reply that step is the empty string; the plan is [""], current_step is  *)
(* 0 and the executor is asked to run "".                                  *)
(***************************************************************************)
C28_StepsNonBlank ==
  lastOp.node = "planner" =>
    \A i \in DOMAIN state.plan : strip(state.plan[i]) # <<>>

=============================================================================
